---- MODULE Spec2Model ----
(***************************************************************************)
(* A model of one bookmarking job of working_sheet_extractor_py.py:        *)
(* handle_uploaded_pdf -> get_processing_paths -> process_pdf_workflow     *)
(* (pdf_to_images, generate_bookmarks_ai, convert_ai_response_to_pdftk,    *)
(* apply_bookmarks, finally: shutil.rmtree).  The external converter, the  *)
(* extraction service, the injection tool and the file system are the      *)
(* environment: their outcomes are chosen nondeterministically.            *)
(***************************************************************************)
EXTENDS Integers, Naturals, Sequences, FiniteSets, TLC

VARIABLES
    pc,                  \* position of the single thread of control of the job
    inputExists,         \* os.path.exists(uploaded_pdf_path)
    pdfPages,            \* number of pages of the input PDF
    tempDirExists,       \* paths['temp_dir'] exists on disk
    image_files,         \* pdf_to_images: the glob result before the sort
    writtenPages,        \* page indices of the files the converter wrote
    image_paths,         \* process_pdf_workflow: the list pdf_to_images returned
    request,             \* generate_bookmarks_ai: the request given to the service
    ai_response,         \* process_pdf_workflow: ai_response_dict
    responseFileWritten, \* paths['response_file_path'] holds the dumped response
    bookmarkFile,        \* paths['bookmark_file_path']: existence and blocks
    finalOut,            \* what is at paths['final_output_path']
    finalOutline,        \* the bookmark blocks the injection tool read for it
    outcome,             \* orchestrator state: "running", "Done" or "Failed"
    raised,              \* the exception process_pdf_workflow propagates
    origin,              \* the error the failing stage first produced
    wfReturn,            \* value process_pdf_workflow returned
    result,              \* value handle_uploaded_pdf returned
    escaped,             \* an exception left handle_uploaded_pdf
    calls,               \* stages invoked by the orchestrator, in order
    succeeded,           \* stages that completed successfully, in order
    faults,              \* environment faults that occurred in this job
    applied,             \* apply_bookmarks: how the tool ended, what it left
    prepared,            \* generate_bookmarks_ai: what the image loop met, until the call
    raw_text,            \* generate_bookmarks_ai: response.text
    parsed,              \* generate_bookmarks_ai: outcome of the boundary search and parse
    original_filename,   \* handle_uploaded_pdf: basename of the uploaded file
    unique_id,           \* get_processing_paths: uuid4().hex[:8]
    paths,               \* get_processing_paths: the dictionary of paths
    fs,                  \* the paths that exist in the file system
    jobs,                \* two jobs side by side: phase, name, id and paths of each
    invocations,         \* how often each external program or service was called
    document_title,      \* a sheet title as it appears in the document
    json_title,          \* the title after the sanitization rules
    resanitized,         \* the sanitized title after the rules once more
    uploaded_pdf_path,   \* handle_uploaded_pdf: the path of the input PDF
    writes               \* the paths the stages of the job have written to

vars == << pc, inputExists, pdfPages, tempDirExists, image_files, writtenPages,
           image_paths, request, ai_response, responseFileWritten, bookmarkFile,
           finalOut, finalOutline, outcome, raised, origin, wfReturn, result,
           escaped, calls, succeeded, faults, applied, prepared, raw_text, parsed,
           original_filename, unique_id, paths, fs, jobs, invocations,
           document_title, json_title, resanitized, uploaded_pdf_path, writes >>

\* the variables of the job other than the position of control
jobVars == << inputExists, pdfPages, tempDirExists, image_files, writtenPages,
              image_paths, request, ai_response, responseFileWritten,
              bookmarkFile, finalOut, finalOutline, outcome, raised, origin,
              wfReturn, result, escaped, calls, succeeded, faults, applied,
              prepared, invocations >>
parserVars == << raw_text, parsed >>
titleVars == << document_title, json_title, resanitized >>
pathVars == << original_filename, unique_id, paths, fs, jobs, uploaded_pdf_path,
              writes >>

(***************************************************************************)
(* Bounds of the model.                                                    *)
(***************************************************************************)
\* largest number of pages of an input PDF
MaxPages == 3
\* largest length of the 'pages' list of a response
MaxRecs == 2
\* largest number of tokens of a response text
MaxText == 5
\* largest length of the 'pages' list given to the compile step on its own
MaxCompileRecs == 2
\* largest number of characters of the name of an uploaded file
MaxName == 3
\* largest page_number and largest declared total a response can carry
MaxPageNum == 2
\* how many page indices past the zero padding the converter's files reach
MaxOver == 1

(***************************************************************************)
(* Program constants.                                                      *)
(***************************************************************************)
\* "page_%04d": width of the zero padded page index
PadWidth == 4
\* "BookmarkLevel: 1"
BookmarkLevel == 1

RECURSIVE Pow10(_)
Pow10(n) == IF n = 0 THEN 1 ELSE 10 * Pow10(n - 1)

(***************************************************************************)
(* File names page_NNNN.<ext>: a name is modelled by the digit string      *)
(* between "page_" and ".<ext>".                                           *)
(***************************************************************************)
RECURSIVE Digits(_)
Digits(k) == IF k < 10 THEN << k >> ELSE Append(Digits(k \div 10), k % 10)

RECURSIVE ZeroPad(_, _)
ZeroPad(ds, w) == IF Len(ds) >= w THEN ds ELSE ZeroPad(<< 0 >> \o ds, w)

\* what the converter names the file of page k ("%04d" never truncates)
FormatPage(k) == ZeroPad(Digits(k), PadWidth)

RECURSIVE ParseInt(_)
ParseInt(ds) ==
    IF ds = << >> THEN 0
    ELSE 10 * ParseInt(SubSeq(ds, 1, Len(ds) - 1)) + ds[Len(ds)]

\* int(match.group(1)) of the regex page_(\d+)\.<ext>$
sort_key(f) == ParseInt(f)

RECURSIVE LexLeq(_, _)
LexLeq(a, b) ==
    IF a = << >> THEN TRUE
    ELSE IF b = << >> THEN FALSE
    ELSE IF a[1] # b[1] THEN a[1] < b[1]
    ELSE LexLeq(Tail(a), Tail(b))

\* a sort on the file names themselves (string order)
KeyLeqLexical(a, b) == LexLeq(a, b)

\* the order image_files.sort(key=sort_key) uses
KeyLeq(a, b) == sort_key(a) <= sort_key(b)

\* insert x after every element that is not greater (list.sort is stable)
RECURSIVE InsertSorted(_, _)
InsertSorted(s, x) ==
    IF s = << >> THEN << x >>
    ELSE IF KeyLeq(s[1], x) THEN << s[1] >> \o InsertSorted(Tail(s), x)
    ELSE << x >> \o s

RECURSIVE SortFiles(_)
SortFiles(s) ==
    IF s = << >> THEN << >>
    ELSE InsertSorted(SortFiles(SubSeq(s, 1, Len(s) - 1)), s[Len(s)])

\* every order in which glob.glob can list the files of the page set S
RECURSIVE Listings(_)
Listings(S) ==
    IF S = {} THEN { << >> }
    ELSE UNION { { << FormatPage(k) >> \o l : l \in Listings(S \ { k }) } : k \in S }

\* page indices the converter's files can carry: small ones, and the ones
\* around the first index that no longer fits the zero padding
PagePool ==
    (1..MaxPages) \cup
    ((Pow10(PadWidth) - 1)..(Pow10(PadWidth) - 1 + MaxOver))

(***************************************************************************)
(* Values.                                                                 *)
(***************************************************************************)
FinalPath == "final_output_path"
NoPath == "no_path"
None == "None"
NoError == "none"

StageOrder == << "rasterize", "extract", "compile", "apply" >>

NoRequest == [sent |-> FALSE, prompt_pages |-> 0, parts |-> << >>]
NoResponse == [present |-> FALSE, total |-> 0, has_pages |-> FALSE, pages |-> << >>]
NoFile == [exists |-> FALSE, blocks |-> << >>]
\* no external call has been made
NoInvocations == [converter |-> 0, service |-> 0, tool |-> 0]
NotApplied == [invoked |-> FALSE, run |-> "none", out |-> "absent"]
\* the image loop of generate_bookmarks_ai has not run
NotPrepared == [ran |-> FALSE, usable |-> {}, unread |-> {}]
NotParsed == [status |-> "none", start_index |-> -1, end_index |-> -1, span |-> << >>]
NoPaths == [temp_dir |-> << >>, image_output_dir |-> << >>,
            response_file_path |-> << >>, bookmark_file_path |-> << >>,
            final_output_path |-> << >>]

\* the variables a specification does not use keep these values
ParserIdle == raw_text = << >> /\ parsed = NotParsed
TitlesIdle == document_title = << >> /\ json_title = << >> /\ resanitized = << >>
PathsIdle ==
    /\ original_filename = << >>
    /\ unique_id = << >>
    /\ paths = NoPaths
    /\ fs = {}
    /\ jobs = << >>
    /\ uploaded_pdf_path = << >>
    /\ writes = {}

\* the defaults of page_detail.get
MissingSheetNum == "MISSING_SHEET_NUM"
MissingSheetTitle == "MISSING_SHEET_TITLE"

\* values of the two title fields of a page entry
SheetNumbers == { "A1", "B2" }
SheetTitles == { "PLAN", "Plan" }

\* dict.get(key, default)
Get(d, key, default) == IF key \in DOMAIN d THEN d[key] ELSE default

\* a page entry of the response; page_number may be missing from it.
\* In the entries of a job the title fields are present and fixed.
PageEntries ==
    { [has_page_number |-> FALSE, page_number |-> 0,
       sheet_number |-> "A1", sheet_title |-> "PLAN"] } \cup
    { [has_page_number |-> TRUE, page_number |-> n,
       sheet_number |-> "A1", sheet_title |-> "PLAN"] : n \in 1..MaxPageNum }

\* page entries in which each of the three keys is present or missing
CompileEntries ==
    { pn @@ sn @@ st :
        pn \in { [has_page_number |-> FALSE, page_number |-> 0] } \cup
               { [has_page_number |-> TRUE, page_number |-> n] : n \in 1..MaxPageNum },
        sn \in { << >> } \cup { [sheet_number |-> v] : v \in SheetNumbers },
        st \in { << >> } \cup { [sheet_title |-> v] : v \in SheetTitles } }

\* the dictionaries given to the compile step on its own
CompileResponses ==
    { [present |-> TRUE, total |-> Len(p), has_pages |-> TRUE, pages |-> p] :
        p \in UNION { [1..n -> CompileEntries] : n \in 0..MaxCompileRecs } } \cup
    { [present |-> TRUE, total |-> 0, has_pages |-> FALSE, pages |-> << >>] }

PageLists == UNION { [1..n -> PageEntries] : n \in 0..MaxRecs }

\* the dictionaries json.loads can give for a response text
ParsedResponses ==
    { [present |-> TRUE, total |-> t, has_pages |-> TRUE, pages |-> p] :
        t \in 0..MaxPageNum, p \in PageLists } \cup
    { [present |-> TRUE, total |-> t, has_pages |-> FALSE, pages |-> << >>] :
        t \in 0..MaxPageNum }

Init ==
    /\ pc = "start"
    /\ inputExists \in BOOLEAN
    /\ pdfPages \in 1..MaxPages
    /\ tempDirExists = FALSE
    /\ image_files = << >>
    /\ writtenPages = {}
    /\ image_paths = << >>
    /\ request = NoRequest
    /\ ai_response = NoResponse
    /\ responseFileWritten = FALSE
    /\ bookmarkFile = NoFile
    /\ finalOut = "absent"
    /\ finalOutline = << >>
    /\ outcome = "running"
    /\ raised = NoError
    /\ origin = NoError
    /\ wfReturn = NoPath
    /\ result = NoPath
    /\ escaped = FALSE
    /\ calls = << >>
    /\ succeeded = << >>
    /\ faults = {}
    /\ applied = NotApplied
    /\ invocations = NoInvocations
    /\ prepared = NotPrepared
    /\ ParserIdle
    /\ TitlesIdle
    /\ PathsIdle

(***************************************************************************)
(* process_pdf_workflow: "except Exception as e: ... raise", after which   *)
(* the finally block runs.  orig is the error the stage first produced,    *)
(* err the exception that reaches the orchestrator.                        *)
(***************************************************************************)
AbortSkippingFinally(orig, err) ==
    /\ outcome' = "Failed"
    /\ origin' = orig
    /\ raised' = err
    /\ pc' = "handler"
    /\ wfReturn' = wfReturn

Abort(orig, err) ==
    /\ outcome' = "Failed"
    /\ origin' = orig
    /\ raised' = err
    /\ pc' = "finally"
    /\ wfReturn' = wfReturn

\* a stage returned normally: the orchestrator goes on to the next statement
Continue(next) ==
    /\ pc' = next
    /\ UNCHANGED << outcome, origin, raised, wfReturn >>

(***************************************************************************)
(* get_processing_paths, called by handle_uploaded_pdf.  os.makedirs       *)
(* either creates temp_dir and temp_dir/images or raises OSError, which    *)
(* handle_uploaded_pdf catches before the workflow is entered.             *)
(***************************************************************************)
GetProcessingPaths ==
    /\ pc = "start"
    /\ \E ok \in BOOLEAN :
         IF ok
         THEN /\ tempDirExists' = TRUE
              /\ pc' = "rasterize"
              /\ UNCHANGED << raised, origin, faults >>
         ELSE /\ tempDirExists' = FALSE
              /\ raised' = "OSError"
              /\ origin' = "OSError"
              /\ faults' = faults \cup { "makedirs" }
              /\ pc' = "handler"
    /\ UNCHANGED << applied, prepared, parserVars, titleVars, pathVars, invocations >>
    /\ UNCHANGED << inputExists, pdfPages, image_files, writtenPages, image_paths,
                    request, ai_response, responseFileWritten, bookmarkFile,
                    finalOut, finalOutline, outcome, wfReturn, result, escaped,
                    calls, succeeded >>

\* pdf_to_images after the converter exited with status zero: glob, then sort
CollectImages(listing) == SortFiles(listing)

\* the time limits given to the three blocking calls: subprocess.run of
\* the converter and of the injection tool, and generate_content, which is
\* called without one
NoTimeout == 0
GsTimeout == 1200
PdftkTimeout == 120
ServiceTimeout == NoTimeout

\* the ways a blocking call can end: with a time limit a call that takes
\* too long raises the timeout error, without one it does not return
CallEndings(timeout, endings) ==
    IF timeout = NoTimeout
    THEN (endings \ { "timeout" }) \cup { "no_return" }
    ELSE endings

\* a caller that makes a second attempt after a failed call
AttemptsWithRetry(failed) == IF failed THEN 2 ELSE 1

\* how often a stage makes its external call: one statement, in no loop
Attempts(failed) == 1

\* a collection step that hands an empty list on
EmptyGlobAccepted(files) == FALSE

\* "if not image_files: raise RuntimeError(...)"
EmptyGlobIsError(files) == files = << >>

(***************************************************************************)
(* Step 1: pdf_to_images.  A converter that exits with status zero wrote   *)
(* one file per page, or no file that matches the pattern.                 *)
(***************************************************************************)
PdfToImages ==
    /\ pc = "rasterize"
    /\ calls' = Append(calls, "rasterize")
    /\ IF ~inputExists
       THEN /\ Abort("FileNotFoundError", "FileNotFoundError")
            /\ faults' = faults \cup { "no_input" }
            /\ UNCHANGED << writtenPages, image_paths, succeeded, invocations >>
       ELSE \E gs \in CallEndings(GsTimeout,
                                   { "exit_nonzero", "timeout", "no_files", "ok" }) :
            /\ invocations' = [invocations EXCEPT
                                  !.converter = @ + Attempts(gs \in { "exit_nonzero", "timeout" })]
            /\ CASE gs = "exit_nonzero" ->
                     /\ Abort("CalledProcessError",
                              "RuntimeError: Ghostscript conversion failed")
                     /\ faults' = faults \cup { "gs_exit" }
                     /\ UNCHANGED << writtenPages, image_paths, succeeded >>
                [] gs = "timeout" ->
                     /\ Abort("TimeoutExpired",
                              "RuntimeError: Ghostscript timed out")
                     /\ faults' = faults \cup { "gs_timeout" }
                     /\ UNCHANGED << writtenPages, image_paths, succeeded >>
                [] gs \in { "no_files", "ok" } ->
                     /\ writtenPages' = IF gs = "ok" THEN 1..pdfPages ELSE {}
                     /\ faults' = IF gs = "ok" THEN faults
                                  ELSE faults \cup { "gs_no_files" }
                     /\ \E listing \in Listings(writtenPages') :
                          IF EmptyGlobIsError(listing)
                          THEN /\ Abort("RuntimeError: no images found",
                                        "RuntimeError: Unexpected error during image conversion")
                               /\ UNCHANGED << image_paths, succeeded >>
                          ELSE /\ image_paths' = CollectImages(listing)
                               /\ succeeded' = Append(succeeded, "rasterize")
                               /\ Continue("extract_prepare")
    /\ UNCHANGED << applied, prepared, parserVars, titleVars, pathVars >>
    /\ UNCHANGED << inputExists, pdfPages, tempDirExists, image_files, request,
                    ai_response, responseFileWritten, bookmarkFile, finalOut,
                    finalOutline, result, escaped >>

\* the elements of s at the positions in keep, in the order of s
RECURSIVE KeepAt(_, _, _)
KeepAt(s, keep, i) ==
    IF i > Len(s) THEN << >>
    ELSE (IF i \in keep THEN << s[i] >> ELSE << >>) \o KeepAt(s, keep, i + 1)

(***************************************************************************)
(* Step 2, first half: generate_bookmarks_ai up to the service call.       *)
(* actual_total_pages is len(image_paths); an image that is missing or     *)
(* whose MIME type cannot be found is skipped; an error while reading the  *)
(* bytes, or no image left, fails the step.                                *)
(***************************************************************************)
\* the loop raises as soon as any image was skipped
PreparationFailsOnAnySkip(image_parts, images) == Len(image_parts) < Len(images)

\* "if not image_parts: raise RuntimeError(...)"
PreparationFails(image_parts, images) == image_parts = << >>

PrepareImageParts ==
    /\ pc = "extract_prepare"
    /\ calls' = Append(calls, "extract")
    /\ IF image_paths = << >>
       THEN /\ Abort("ValueError: No image paths provided",
                     "ValueError: No image paths provided")
            /\ UNCHANGED << request, faults, prepared >>
       ELSE \E usable \in SUBSET (1..Len(image_paths)) :
            \E unread \in { {} } \cup { { k } : k \in usable } :
              LET image_parts == KeepAt(image_paths, usable, 1)
              IN  /\ prepared' = [ran |-> TRUE, usable |-> usable, unread |-> unread]
                  /\ IF unread # {}
                     THEN /\ Abort("OSError",
                                   "RuntimeError: Failed during image preparation for AI.")
                          /\ faults' = faults \cup { "image_read" }
                          /\ UNCHANGED request
                     ELSE IF PreparationFails(image_parts, image_paths)
                     THEN /\ Abort("RuntimeError: No valid image parts",
                                   "RuntimeError: Failed during image preparation for AI.")
                          /\ faults' = faults \cup { "no_image_left" }
                          /\ UNCHANGED request
                     ELSE /\ request' = [sent |-> TRUE,
                                         prompt_pages |-> Len(image_paths),
                                         parts |-> image_parts]
                          /\ Continue("extract_call")
                          /\ UNCHANGED faults
    /\ UNCHANGED << applied, parserVars, titleVars, pathVars, invocations >>
    /\ UNCHANGED << inputExists, pdfPages, tempDirExists, image_files, writtenPages,
                    image_paths, ai_response, responseFileWritten, bookmarkFile,
                    finalOut, finalOutline, result, escaped, succeeded >>

(***************************************************************************)
(* Step 2, second half: client.models.generate_content and the parsing of  *)
(* its text.  The parsed dictionary is returned as it is.                  *)
(***************************************************************************)
CallGemini ==
    /\ pc = "extract_call"
    /\ \E ending \in CallEndings(ServiceTimeout, { "api_error", "timeout", "returned" }) :
         /\ invocations' = [invocations EXCEPT
                              !.service = @ + Attempts(ending # "returned")]
         /\ CASE ending = "no_return" ->
                   /\ pc' = "extract_blocked"
                   /\ faults' = faults \cup { "service_no_return" }
                   /\ UNCHANGED << request, prepared, ai_response, succeeded,
                                   outcome, origin, raised, wfReturn >>
              [] ending \in { "api_error", "timeout" } ->
                   /\ Abort(ending, "RuntimeError: Gemini API interaction or response processing failed.")
                   /\ faults' = faults \cup { ending }
                   /\ request' = NoRequest
                   /\ prepared' = NotPrepared
                   /\ UNCHANGED << ai_response, succeeded >>
              [] ending = "returned" ->
                   /\ request' = NoRequest
                   /\ prepared' = NotPrepared
                   /\ \/ /\ \E f \in { "no_text", "no_braces", "bad_json" } :
                              /\ Abort(f, "RuntimeError: Gemini API interaction or response processing failed.")
                              /\ faults' = faults \cup { f }
                         /\ UNCHANGED << ai_response, succeeded >>
                      \/ /\ \E r \in ParsedResponses : ai_response' = r
                         /\ succeeded' = Append(succeeded, "extract")
                         /\ Continue("save_response")
                         /\ UNCHANGED faults
    /\ UNCHANGED << applied, parserVars, titleVars, pathVars >>
    /\ UNCHANGED << inputExists, pdfPages, tempDirExists, image_files, writtenPages,
                    image_paths, responseFileWritten, bookmarkFile, finalOut,
                    finalOutline, result, escaped, calls >>

(***************************************************************************)
(* The optional dump of the response into temp_dir: a failed write is      *)
(* logged as a warning and the workflow goes on.                           *)
(***************************************************************************)
\* a dump whose failed write is not caught
DumpRaisesUncaught(ok) == ~ ok

\* "except Exception as write_err: logging.warning(...)": nothing leaves
\* the try statement around the dump
DumpRaises(ok) == FALSE

SaveRawResponse ==
    /\ pc = "save_response"
    /\ \E ok \in BOOLEAN :
         /\ responseFileWritten' = ok
         /\ faults' = IF ok THEN faults ELSE faults \cup { "response_write" }
         /\ IF DumpRaises(ok)
            THEN Abort("OSError", "OSError")
            ELSE Continue("compile")
    /\ UNCHANGED << applied, prepared, parserVars, titleVars, pathVars, invocations >>
    /\ UNCHANGED << inputExists, pdfPages, tempDirExists, image_files, writtenPages,
                    image_paths, request, ai_response, bookmarkFile, finalOut,
                    finalOutline, result, escaped, calls, succeeded >>

(***************************************************************************)
(* convert_ai_response_to_pdftk: one block per entry of 'pages', in list   *)
(* order; an entry without page_number raises KeyError and is skipped.     *)
(***************************************************************************)
\* bookmark_entry: the four lines of a block and the empty line after them
BookmarkBlock(e) ==
    [begin |-> "BookmarkBegin",
     title |-> Get(e, "sheet_number", MissingSheetNum) \o " " \o
               Get(e, "sheet_title", MissingSheetTitle),
     level |-> BookmarkLevel,
     page |-> e.page_number,
     blank |-> ""]

\* a compile step that writes a block equal to the one before it only once
RECURSIVE BookmarkEntriesMerged(_)
BookmarkEntriesMerged(pages) ==
    IF pages = << >> THEN << >>
    ELSE (IF /\ pages[1].has_page_number
             /\ ~(Len(pages) >= 2 /\ pages[2] = pages[1])
          THEN << BookmarkBlock(pages[1]) >> ELSE << >>)
         \o BookmarkEntriesMerged(Tail(pages))

RECURSIVE BookmarkEntriesReversed(_)
BookmarkEntriesReversed(pages) ==
    IF pages = << >> THEN << >>
    ELSE BookmarkEntriesReversed(Tail(pages)) \o
         (IF pages[1].has_page_number THEN << BookmarkBlock(pages[1]) >> ELSE << >>)

\* a compile step that reads the two title fields as it reads page_number,
\* so that an entry lacking one of them is skipped as well
RECURSIVE BookmarkEntriesAllKeys(_)
BookmarkEntriesAllKeys(pages) ==
    IF pages = << >> THEN << >>
    ELSE (IF /\ pages[1].has_page_number
             /\ { "sheet_number", "sheet_title" } \subseteq DOMAIN pages[1]
          THEN << BookmarkBlock(pages[1]) >> ELSE << >>)
         \o BookmarkEntriesAllKeys(Tail(pages))

RECURSIVE BookmarkEntries(_)
BookmarkEntries(pages) ==
    IF pages = << >> THEN << >>
    ELSE (IF pages[1].has_page_number THEN << BookmarkBlock(pages[1]) >> ELSE << >>)
         \o BookmarkEntries(Tail(pages))

\* an orchestrator that does not look at the step's return value
CompileCheckIgnored(success) == TRUE

\* "if not success: raise RuntimeError(...)" after the compile step
CompileCheck(success) == success

\* an orchestrator that does not look at the step's return value
ApplyCheckIgnored(success) == TRUE

\* "if not success: raise RuntimeError(...)" after the apply step
ApplyCheck(success) == success

(***************************************************************************)
(* Step 3: convert_ai_response_to_pdftk and the orchestrator's check of    *)
(* its result.  Every exception inside it, a failed write included, turns  *)
(* into the return value False.                                            *)
(***************************************************************************)
\* a compile step that treats an empty 'pages' list as an error
ConvertResultEmptyIsError(response, written) ==
    response.has_pages /\ response.pages # << >> /\ written

\* a compile step in which the KeyError of an entry without page_number
\* reaches the outer handler
ConvertResultSkipIsError(response, written) ==
    /\ response.has_pages
    /\ written
    /\ \A i \in 1..Len(response.pages) : response.pages[i].has_page_number

\* convert_ai_response_to_pdftk's return value: False without a 'pages'
\* list and after an exception, True after each of the three writes
ConvertResult(response, written) == response.has_pages /\ written

ConvertAiResponseToPdftk ==
    /\ pc = "compile"
    /\ calls' = Append(calls, "compile")
    /\ \E written \in { w \in BOOLEAN : w \/ ai_response.has_pages } :
         LET success == ConvertResult(ai_response, written)
         IN  /\ bookmarkFile' =
                   IF success
                   THEN [exists |-> TRUE, blocks |-> BookmarkEntries(ai_response.pages)]
                   ELSE bookmarkFile
             /\ faults' = IF written THEN faults ELSE faults \cup { "bookmark_write" }
             /\ succeeded' = IF success THEN Append(succeeded, "compile") ELSE succeeded
             /\ IF CompileCheck(success)
                THEN Continue("apply")
                ELSE Abort(IF ai_response.has_pages THEN "OSError" ELSE "pages missing",
                           "RuntimeError: Failed to convert AI response to PDFtk bookmark format.")
    /\ UNCHANGED << applied, prepared, parserVars, titleVars, pathVars, invocations >>
    /\ UNCHANGED << inputExists, pdfPages, tempDirExists, image_files, writtenPages,
                    image_paths, request, ai_response, responseFileWritten,
                    finalOut, finalOutline, result, escaped >>

\* what the injection tool can leave at output_path, by the way it ended
ToolOutputs(run) ==
    CASE run = "exit0" -> { "absent", "empty", "full" }
      [] run = "exit_nonzero" -> { "absent", "empty", "partial" }
      [] run = "timeout" -> { "absent", "empty", "partial" }
      [] run = "launch_error" -> { "absent" }

\* a tool result that trusts the exit status alone
ApplyResultExitOnly(run, out) == run = "exit0"

\* apply_bookmarks' return value: check=True let the run pass, and then
\* os.path.exists(output_pdf_path) and os.path.getsize(output_pdf_path) > 0
ApplyResult(run, out) == run = "exit0" /\ out # "absent" /\ out # "empty"

\* output_path after apply_bookmarks: only a clean exit removes an empty file
OutputAfterApply(run, out, removed) ==
    IF run = "exit0" /\ out = "empty" /\ removed THEN "absent" ELSE out

(***************************************************************************)
(* Step 4: apply_bookmarks and the orchestrator's check of its result.     *)
(***************************************************************************)
ApplyBookmarks ==
    /\ pc = "apply"
    /\ calls' = Append(calls, "apply")
    /\ IF ~bookmarkFile.exists
       THEN /\ Abort("FileNotFoundError", "FileNotFoundError")
            /\ faults' = faults \cup { "no_bookmark_file" }
            /\ UNCHANGED << finalOut, finalOutline, succeeded, applied, invocations >>
       ELSE \E run \in CallEndings(PdftkTimeout,
                                    { "exit0", "exit_nonzero", "timeout", "launch_error" }) :
            \E out \in ToolOutputs(run) :
            \E removed \in { r \in BOOLEAN : r \/ (run = "exit0" /\ out = "empty") } :
              LET success == ApplyResult(run, out)
              IN  /\ finalOut' = OutputAfterApply(run, out, removed)
                  /\ finalOutline' = IF out = "full" THEN bookmarkFile.blocks ELSE << >>
                  /\ applied' = [invoked |-> TRUE, run |-> run, out |-> out]
                  /\ invocations' = [invocations EXCEPT
                                       !.tool = @ + Attempts(run # "exit0")]
                  /\ faults' = (IF run = "exit0" /\ out = "full"
                                THEN faults ELSE faults \cup { "pdftk" })
                               \cup (IF removed THEN {} ELSE { "output_remove" })
                  /\ succeeded' = IF success THEN Append(succeeded, "apply") ELSE succeeded
                  /\ IF ApplyCheck(success)
                     THEN /\ outcome' = "Done"
                          /\ wfReturn' = FinalPath
                          /\ pc' = "finally"
                          /\ UNCHANGED << origin, raised >>
                     ELSE Abort("pdftk " \o run,
                                "RuntimeError: Failed to apply PDFtk bookmarks to the PDF.")
    /\ UNCHANGED << prepared, parserVars, titleVars, pathVars >>
    /\ UNCHANGED << inputExists, pdfPages, tempDirExists, image_files, writtenPages,
                    image_paths, request, ai_response, responseFileWritten,
                    bookmarkFile, result, escaped >>

(***************************************************************************)
(* Step 5: the finally block.  shutil.rmtree removes temp_dir and all the  *)
(* intermediate files in it; an OSError is logged and not raised.          *)
(***************************************************************************)
\* a finally block without the "except OSError" around shutil.rmtree
RaisedAfterCleanupUnguarded(failed, current) ==
    IF failed THEN "OSError: rmtree" ELSE current

\* the exception in flight when the finally block ends: "except OSError"
\* logs the failure of shutil.rmtree and raises nothing
RaisedAfterCleanup(failed, current) == current

Cleanup ==
    /\ pc = "finally"
    /\ calls' = Append(calls, "teardown")
    /\ \E removed \in BOOLEAN :
         /\ IF tempDirExists /\ removed
            THEN /\ tempDirExists' = FALSE
                 /\ responseFileWritten' = FALSE
                 /\ bookmarkFile' = NoFile
                 /\ UNCHANGED faults
            ELSE /\ faults' = IF tempDirExists THEN faults \cup { "rmtree" } ELSE faults
                 /\ UNCHANGED << tempDirExists, responseFileWritten, bookmarkFile >>
         /\ raised' = RaisedAfterCleanup(tempDirExists /\ ~removed, raised)
    /\ pc' = "handler"
    /\ UNCHANGED << applied, prepared, parserVars, titleVars, pathVars, invocations >>
    /\ UNCHANGED << inputExists, pdfPages, image_files, writtenPages, image_paths,
                    request, ai_response, finalOut, finalOutline, outcome,
                    origin, wfReturn, result, escaped, succeeded >>

\* a handler written as "except RuntimeError"
HandlerCatchesRuntimeErrorOnly(err) == err \notin { "OSError", "FileNotFoundError" }

\* handle_uploaded_pdf: "except Exception as e"
HandlerCatches(err) == TRUE

(***************************************************************************)
(* handle_uploaded_pdf after get_processing_paths or process_pdf_workflow  *)
(* came back: return the path, or None for a caught exception.             *)
(***************************************************************************)
HandlerReturn ==
    /\ pc = "handler"
    /\ IF raised = NoError
       THEN /\ result' = wfReturn
            /\ UNCHANGED escaped
       ELSE IF HandlerCatches(raised)
       THEN /\ result' = None
            /\ UNCHANGED escaped
       ELSE /\ escaped' = TRUE
            /\ UNCHANGED result
    /\ pc' = "returned"
    /\ UNCHANGED << applied, prepared, parserVars, titleVars, pathVars, invocations >>
    /\ UNCHANGED << inputExists, pdfPages, tempDirExists, image_files, writtenPages,
                    image_paths, request, ai_response, responseFileWritten,
                    bookmarkFile, finalOut, finalOutline, outcome, raised, origin,
                    wfReturn, calls, succeeded, faults >>

Next ==
    \/ GetProcessingPaths
    \/ PdfToImages
    \/ PrepareImageParts
    \/ CallGemini
    \/ SaveRawResponse
    \/ ConvertAiResponseToPdftk
    \/ ApplyBookmarks
    \/ Cleanup
    \/ HandlerReturn

Spec == Init /\ [][Next]_vars

\* the job is one thread of control that runs on while a step is possible
LiveSpec == Spec /\ WF_vars(Next)

(***************************************************************************)
(* pdf_to_images' collection of the converter's files, on its own: the     *)
(* converter wrote one file per page index of writtenPages and glob lists  *)
(* them in any order.                                                      *)
(***************************************************************************)
RasterInit ==
    /\ pc = "collect"
    /\ inputExists = TRUE
    /\ writtenPages \in (SUBSET PagePool) \ { {} }
    /\ pdfPages = Cardinality(writtenPages)
    /\ image_files \in Listings(writtenPages)
    /\ tempDirExists = TRUE
    /\ image_paths = << >>
    /\ request = NoRequest
    /\ ai_response = NoResponse
    /\ responseFileWritten = FALSE
    /\ bookmarkFile = NoFile
    /\ finalOut = "absent"
    /\ finalOutline = << >>
    /\ outcome = "running"
    /\ raised = NoError
    /\ origin = NoError
    /\ wfReturn = NoPath
    /\ result = NoPath
    /\ escaped = FALSE
    /\ calls = << "rasterize" >>
    /\ succeeded = << >>
    /\ faults = {}
    /\ applied = NotApplied
    /\ invocations = [converter |-> 1, service |-> 0, tool |-> 0]
    /\ prepared = NotPrepared
    /\ ParserIdle
    /\ TitlesIdle
    /\ PathsIdle

CollectAndSort ==
    /\ pc = "collect"
    /\ image_paths' = CollectImages(image_files)
    /\ succeeded' = Append(succeeded, "rasterize")
    /\ pc' = "collected"
    /\ UNCHANGED << applied, prepared, parserVars, titleVars, pathVars, invocations >>
    /\ UNCHANGED << inputExists, pdfPages, tempDirExists, image_files, writtenPages,
                    request, ai_response, responseFileWritten, bookmarkFile,
                    finalOut, finalOutline, outcome, raised, origin, wfReturn,
                    result, escaped, calls, faults >>

RasterNext == CollectAndSort

RasterSpec == RasterInit /\ [][RasterNext]_vars

(***************************************************************************)
(* convert_ai_response_to_pdftk on its own, for every parsed dictionary    *)
(* whose entries have or lack each of the three keys.                      *)
(***************************************************************************)
CompileInit ==
    /\ pc = "compile"
    /\ ai_response \in CompileResponses
    /\ inputExists = TRUE
    /\ pdfPages = 1
    /\ tempDirExists = TRUE
    /\ image_files = << >>
    /\ writtenPages = { 1 }
    /\ image_paths = << FormatPage(1) >>
    /\ request = NoRequest
    /\ responseFileWritten \in BOOLEAN
    /\ bookmarkFile = NoFile
    /\ finalOut = "absent"
    /\ finalOutline = << >>
    /\ outcome = "running"
    /\ raised = NoError
    /\ origin = NoError
    /\ wfReturn = NoPath
    /\ result = NoPath
    /\ escaped = FALSE
    /\ calls = << "rasterize", "extract" >>
    /\ succeeded = << "rasterize", "extract" >>
    /\ faults = {}
    /\ applied = NotApplied
    /\ invocations = [converter |-> 1, service |-> 1, tool |-> 0]
    /\ prepared = NotPrepared
    /\ ParserIdle
    /\ TitlesIdle
    /\ PathsIdle

CompileNext == ConvertAiResponseToPdftk

CompileSpec == CompileInit /\ [][CompileNext]_vars

(***************************************************************************)
(* The boundary search and parse of generate_bookmarks_ai, on its own.     *)
(* A response text is a sequence of tokens: the two braces, a complete     *)
(* member ("k"), a key awaiting an object value ("n"), and text that is    *)
(* not JSON ("x": a fence, a commentary).                                  *)
(***************************************************************************)
TextTokens == { "{", "}", "k", "n", "x" }
ResponseTexts == UNION { [1..n -> TextTokens] : n \in 0..MaxText }

\* str.find: 0-based index of the first occurrence, -1 when there is none
find(s, c) ==
    IF \E i \in 1..Len(s) : s[i] = c
    THEN (CHOOSE i \in 1..Len(s) : s[i] = c /\ \A j \in 1..(i - 1) : s[j] # c) - 1
    ELSE -1

\* a search for the closing brace that stops at the first one
findFirstClose(s, c) == find(s, c)

\* str.rfind: 0-based index of the last occurrence, -1 when there is none
rfind(s, c) ==
    IF \E i \in 1..Len(s) : s[i] = c
    THEN (CHOOSE i \in 1..Len(s) : s[i] = c /\ \A j \in (i + 1)..Len(s) : s[j] # c) - 1
    ELSE -1

\* the slice s[a : b] of a 0-based sequence
Slice(s, a, b) == SubSeq(s, a + 1, b)

\* json.loads accepts the token sequence: an object with no member, with
\* the member "k", or with the key "n" and an object as its value
RECURSIVE JsonLoads(_)
JsonLoads(s) ==
    /\ Len(s) >= 2
    /\ s[1] = "{"
    /\ s[Len(s)] = "}"
    /\ LET inner == SubSeq(s, 2, Len(s) - 1)
       IN  \/ inner = << >>
           \/ inner = << "k" >>
           \/ /\ Len(inner) >= 3
              /\ inner[1] = "n"
              /\ JsonLoads(Tail(inner))

ParseInit ==
    /\ pc = "parse"
    /\ raw_text \in ResponseTexts
    /\ parsed = NotParsed
    /\ inputExists = TRUE
    /\ pdfPages = 1
    /\ tempDirExists = TRUE
    /\ image_files = << >>
    /\ writtenPages = { 1 }
    /\ image_paths = << FormatPage(1) >>
    /\ request = NoRequest
    /\ ai_response = NoResponse
    /\ responseFileWritten = FALSE
    /\ bookmarkFile = NoFile
    /\ finalOut = "absent"
    /\ finalOutline = << >>
    /\ outcome = "running"
    /\ raised = NoError
    /\ origin = NoError
    /\ wfReturn = NoPath
    /\ result = NoPath
    /\ escaped = FALSE
    /\ calls = << "rasterize", "extract" >>
    /\ succeeded = << "rasterize" >>
    /\ faults = {}
    /\ applied = NotApplied
    /\ invocations = [converter |-> 1, service |-> 1, tool |-> 0]
    /\ prepared = NotPrepared
    /\ TitlesIdle
    /\ PathsIdle

\* from "if not response.text" to "return parsed_data"
ParseResponse ==
    /\ pc = "parse"
    /\ pc' = "parsed"
    /\ LET start_index == find(raw_text, "{")
           end_index == rfind(raw_text, "}")
           json_core_string == Slice(raw_text, start_index, end_index + 1)
       IN  parsed' =
             IF raw_text = << >>
             THEN [status |-> "no_text", start_index |-> -1, end_index |-> -1,
                   span |-> << >>]
             ELSE IF start_index = -1 \/ end_index = -1 \/ end_index < start_index
             THEN [status |-> "no_boundaries", start_index |-> start_index,
                   end_index |-> end_index, span |-> << >>]
             ELSE [status |-> IF JsonLoads(json_core_string) THEN "ok" ELSE "bad_json",
                   start_index |-> start_index, end_index |-> end_index,
                   span |-> json_core_string]
    /\ UNCHANGED << raw_text, jobVars, titleVars, pathVars >>

ParseNext == ParseResponse

ParseSpec == ParseInit /\ [][ParseNext]_vars


(***************************************************************************)
(* get_processing_paths and the files of one job.  A path is the sequence  *)
(* of its components; a file name is a sequence of characters, of which    *)
(* the space and the dot matter to the code.                               *)
(***************************************************************************)
NameChars == { "a", " ", "." }

\* os.path.basename of an existing file: not empty, not "." and not ".."
FileNames ==
    { n \in UNION { [1..k -> NameChars] : k \in 1..MaxName } :
        \E i \in 1..Len(n) : n[i] # "." }

\* uuid.uuid4().hex[:8]
UniqueIds == { "0a1b2c3d", "9e8f7a6b" }

\* config.BASE_OUTPUT_DIR
OutputBaseDir == << "output" >>

\* the characters of a name as one string
RECURSIVE Join(_)
Join(n) == IF n = << >> THEN "" ELSE n[1] \o Join(Tail(n))

\* pathlib's stem: the name without its last suffix; a dot at the start or
\* at the end of the name begins no suffix
Stem(n) ==
    LET i == rfind(n, ".")
    IN  IF 0 < i /\ i < Len(n) - 1 THEN SubSeq(n, 1, i) ELSE n

\* str.replace(old, new) for one character
Replace(n, old, new) == [i \in 1..Len(n) |-> IF n[i] = old THEN new ELSE n[i]]

\* Path(original_filename).stem.replace(" ", "_").replace(".", "_")
SafeBaseFilename(n) == Replace(Replace(Stem(n), " ", "_"), ".", "_")

\* a workspace rooted at the output directory itself
TempDirIsBase(base, safe, uid) == base

\* Path(output_base_dir) / f"processing_{safe_base_filename}_{unique_id}"
TempDir(base, safe, uid) ==
    Append(base, "processing_" \o Join(safe) \o "_" \o uid)

\* the directories an input PDF is given in: the directory of temporary
\* files, where the upload is saved, and the output directory itself
UploadDirs == { << "tmp" >>, OutputBaseDir }

\* an injection tool told to write its result over its input
ToolOutputInPlace(ps, input) == input

\* apply_bookmarks: the path after "output" on the tool's command line
ToolOutputPath(ps, input) == ps.final_output_path

\* the dictionary get_processing_paths returns
ProcessingPaths(base, n, uid) ==
    LET safe == SafeBaseFilename(n)
        temp_dir == TempDir(base, safe, uid)
    IN  [temp_dir |-> temp_dir,
         image_output_dir |-> Append(temp_dir, "images"),
         response_file_path |-> Append(temp_dir, Join(safe) \o "_response.json"),
         bookmark_file_path |-> Append(temp_dir, Join(safe) \o "_bookmarks.txt"),
         final_output_path |-> Append(base, "Autobookmarked_" \o Join(n))]

\* path p is inside directory d
IsUnder(p, d) == Len(p) > Len(d) /\ SubSeq(p, 1, Len(d)) = d

\* os.makedirs(d, exist_ok=True): d and the directories above it
MakeDirs(d) == { SubSeq(d, 1, k) : k \in 1..Len(d) }

\* shutil.rmtree(d): d and everything inside it are gone
RmTree(files, d) == { p \in files : p # d /\ ~IsUnder(p, d) }

PathInit ==
    /\ pc = "paths"
    /\ original_filename \in FileNames
    /\ uploaded_pdf_path \in { Append(d, Join(original_filename)) : d \in UploadDirs }
    /\ unique_id = << >>
    /\ paths = NoPaths
    /\ fs \in { MakeDirs(uploaded_pdf_path),
                MakeDirs(uploaded_pdf_path) \cup { OutputBaseDir } }
    /\ writes = {}
    /\ jobs = << >>
    /\ inputExists = TRUE
    /\ pdfPages = 1
    /\ tempDirExists = FALSE
    /\ image_files = << >>
    /\ writtenPages = {}
    /\ image_paths = << >>
    /\ request = NoRequest
    /\ ai_response = NoResponse
    /\ responseFileWritten = FALSE
    /\ bookmarkFile = NoFile
    /\ finalOut = "absent"
    /\ finalOutline = << >>
    /\ outcome = "running"
    /\ raised = NoError
    /\ origin = NoError
    /\ wfReturn = NoPath
    /\ result = NoPath
    /\ escaped = FALSE
    /\ calls = << >>
    /\ succeeded = << >>
    /\ faults = {}
    /\ applied = NotApplied
    /\ invocations = NoInvocations
    /\ prepared = NotPrepared
    /\ ParserIdle
    /\ TitlesIdle

\* get_processing_paths: the paths and the two os.makedirs calls
AllocatePaths ==
    /\ pc = "paths"
    /\ \E uid \in UniqueIds :
         /\ unique_id' = uid
         /\ paths' = ProcessingPaths(OutputBaseDir, original_filename, uid)
    /\ fs' = fs \cup MakeDirs(paths'.image_output_dir) \cup MakeDirs(OutputBaseDir)
    /\ pc' = "stages"
    /\ UNCHANGED << original_filename, uploaded_pdf_path, writes, jobs, jobVars,
                    parserVars, titleVars >>

\* the stages of process_pdf_workflow as writers of files: page images, the
\* raw response, the bookmark file and the final output, each written or not
RunStages ==
    /\ pc = "stages"
    /\ \E written \in SUBSET { Append(paths.image_output_dir, "page_0001.png"),
                              paths.response_file_path,
                              paths.bookmark_file_path,
                              ToolOutputPath(paths, uploaded_pdf_path) } :
         /\ fs' = fs \cup written
         /\ writes' = writes \cup written
    /\ pc' = "teardown"
    /\ UNCHANGED << original_filename, uploaded_pdf_path, unique_id, paths, jobs,
                    jobVars, parserVars, titleVars >>

\* the finally block: shutil.rmtree(temp_dir_to_clean), which can fail
Teardown ==
    /\ pc = "teardown"
    /\ \E removed \in BOOLEAN :
         fs' = IF removed THEN RmTree(fs, paths.temp_dir) ELSE fs
    /\ pc' = "torn_down"
    /\ UNCHANGED << original_filename, uploaded_pdf_path, writes, unique_id, paths,
                    jobs, jobVars, parserVars, titleVars >>

PathNext == AllocatePaths \/ RunStages \/ Teardown

PathSpec == PathInit /\ [][PathNext]_vars

(***************************************************************************)
(* Two jobs that share the output directory, each calling                  *)
(* get_processing_paths, writing its intermediate files and running its    *)
(* finally block, in any interleaving.                                     *)
(***************************************************************************)
JobIds == { "first", "second" }

\* the names of the uploads of the two jobs
JobFileNames == { n \in FileNames : Len(n) < MaxName }

\* what a job writes into its workspace
JobFiles(ps) ==
    { Append(ps.image_output_dir, "page_0001.png"),
      ps.response_file_path, ps.bookmark_file_path }

\* os.makedirs(d, exist_ok=...) goes through: d is new, or its existence is accepted
MakeDirsPasses(files, d, exist_ok) == exist_ok \/ d \notin files

JobsInit ==
    /\ pc = "jobs"
    /\ jobs \in [JobIds -> { [phase |-> "paths", original_filename |-> n,
                              unique_id |-> << >>, paths |-> NoPaths] :
                                n \in JobFileNames }]
    /\ fs = {}
    /\ uploaded_pdf_path = << >>
    /\ writes = {}
    /\ original_filename = << >>
    /\ unique_id = << >>
    /\ paths = NoPaths
    /\ inputExists = TRUE
    /\ pdfPages = 1
    /\ tempDirExists = FALSE
    /\ image_files = << >>
    /\ writtenPages = {}
    /\ image_paths = << >>
    /\ request = NoRequest
    /\ ai_response = NoResponse
    /\ responseFileWritten = FALSE
    /\ bookmarkFile = NoFile
    /\ finalOut = "absent"
    /\ finalOutline = << >>
    /\ outcome = "running"
    /\ raised = NoError
    /\ origin = NoError
    /\ wfReturn = NoPath
    /\ result = NoPath
    /\ escaped = FALSE
    /\ calls = << >>
    /\ succeeded = << >>
    /\ faults = {}
    /\ applied = NotApplied
    /\ invocations = NoInvocations
    /\ prepared = NotPrepared
    /\ ParserIdle
    /\ TitlesIdle

\* get_processing_paths of job j; os.makedirs(image_output_dir, exist_ok=True)
JobAllocatePaths(j) ==
    /\ jobs[j].phase = "paths"
    /\ \E uid \in UniqueIds :
         LET ps == ProcessingPaths(OutputBaseDir, jobs[j].original_filename, uid)
         IN  /\ MakeDirsPasses(fs, ps.image_output_dir, TRUE)
             /\ jobs' = [jobs EXCEPT ![j] = [phase |-> "stages",
                                             original_filename |-> @.original_filename,
                                             unique_id |-> uid, paths |-> ps]]
             /\ fs' = fs \cup MakeDirs(ps.image_output_dir) \cup MakeDirs(OutputBaseDir)
    /\ UNCHANGED << pc, original_filename, uploaded_pdf_path, writes, unique_id, paths,
                    jobVars, parserVars, titleVars >>

\* the stages of job j write its page image, raw response and bookmark file
JobRunStages(j) ==
    /\ jobs[j].phase = "stages"
    /\ fs' = fs \cup JobFiles(jobs[j].paths)
    /\ jobs' = [jobs EXCEPT ![j].phase = "teardown"]
    /\ UNCHANGED << pc, original_filename, uploaded_pdf_path, writes, unique_id, paths,
                    jobVars, parserVars, titleVars >>

\* the finally block of job j
JobTeardown(j) ==
    /\ jobs[j].phase = "teardown"
    /\ \E removed \in BOOLEAN :
         fs' = IF removed THEN RmTree(fs, jobs[j].paths.temp_dir) ELSE fs
    /\ jobs' = [jobs EXCEPT ![j].phase = "torn_down"]
    /\ UNCHANGED << pc, original_filename, uploaded_pdf_path, writes, unique_id, paths,
                    jobVars, parserVars, titleVars >>

JobsNext ==
    \E j \in JobIds : JobAllocatePaths(j) \/ JobRunStages(j) \/ JobTeardown(j)

JobsSpec == JobsInit /\ [][JobsNext]_vars


(***************************************************************************)
(* Properties.                                                             *)
(***************************************************************************)
StageCalls == SelectSeq(calls, LAMBDA c : c # "teardown")
TeardownCount == Len(SelectSeq(calls, LAMBDA c : c = "teardown"))
\* process_pdf_workflow was entered and control is back in handle_uploaded_pdf
WorkflowExited == pc \in { "handler", "returned" } /\ calls # << >>

\* the response satisfies the extraction contract for n images
ResponseValid(r, n) ==
    /\ r.present
    /\ r.has_pages
    /\ r.total = n
    /\ Len(r.pages) = n
    /\ \A i \in 1..Len(r.pages) : r.pages[i].has_page_number
    /\ { r.pages[i].page_number : i \in 1..Len(r.pages) } = 1..n

\* the complete response in page order: record k is numbered k
ResponseComplete(r, n) ==
    /\ ResponseValid(r, n)
    /\ \A i \in 1..Len(r.pages) : r.pages[i].page_number = i

\* C1: in every run of process_pdf_workflow the teardown runs exactly once
\* and is the last thing the run does: it is in the run's call sequence at
\* most once and only at its end, and every run that has left the workflow,
\* failed at whichever stage or not at all, has it.
C1_TeardownOnceLast ==
    /\ TeardownCount <= 1
    /\ (TeardownCount = 1 => calls[Len(calls)] = "teardown")
    /\ (WorkflowExited => TeardownCount = 1)

C1_Witness ==
    /\ pc = "returned"
    /\ outcome = "Failed"
    /\ calls = << "rasterize", "extract", "compile", "teardown" >>

\* C2: the stages are invoked in the order rasterize, extract, compile,
\* apply; a stage is invoked only when all earlier ones succeeded, after a
\* failure no stage is invoked, and Done is reached exactly by four successes.
C2_StageOrder ==
    LET k == Len(StageCalls)
        m == Len(succeeded)
    IN  /\ k <= Len(StageOrder)
        /\ StageCalls = SubSeq(StageOrder, 1, k)
        /\ m <= k
        /\ succeeded = SubSeq(StageOrder, 1, m)
        /\ (m = k \/ (m = k - 1 /\ (outcome = "Failed" \/ pc \in { "extract_call", "extract_blocked" })))
        /\ (outcome = "Failed" /\ k > 0 => m = k - 1)
        /\ (outcome = "Done" <=> m = Len(StageOrder))

C2_Witness ==
    /\ pc = "returned"
    /\ outcome = "Done"
    /\ calls = StageOrder \o << "teardown" >>

\* C3: process_pdf_workflow returns final_output_path exactly when all four
\* stages succeeded; in every run where a stage failed it returns no path
\* and raises.
C3_PathOnlyOnDone ==
    WorkflowExited =>
        /\ (wfReturn = FinalPath <=> succeeded = StageOrder)
        /\ (succeeded = StageOrder => raised = NoError)
        /\ (succeeded # StageOrder => wfReturn = NoPath /\ raised # NoError)

C3_Witness ==
    /\ WorkflowExited
    /\ succeeded = << "rasterize", "extract", "compile" >>
    /\ raised = "RuntimeError: Failed to apply PDFtk bookmarks to the PDF."
    /\ wfReturn = NoPath

\* C4: handle_uploaded_pdf never raises; it returns the final output path
\* when the workspace was allocated and all stages succeeded, and None when
\* get_processing_paths or any stage raised.
C4_HandlerNeverRaises ==
    /\ ~escaped
    /\ (pc = "returned" =>
          IF "makedirs" \notin faults /\ succeeded = StageOrder
          THEN result = FinalPath
          ELSE result = None)

C4_Witness ==
    /\ pc = "returned"
    /\ raised = "OSError"
    /\ calls = << >>
    /\ result = None

\* C5: the extraction step hands a parsed response to the orchestrator only
\* if its declared total is the number N of input images and its page
\* numbers are exactly 1..N, each once.
C5_OnlyValidResponseAccepted ==
    (Len(succeeded) >= 2 /\ succeeded[2] = "extract") =>
        ResponseValid(ai_response, Len(image_paths))

\* C6: a job whose extraction response declares a total different from the
\* number of page images, all tools and file operations working as in the
\* end-to-end scenario, ends in failure: None is returned, nothing is at
\* final_output_path, and the workspace is gone.
C6_WrongTotalFailsJob ==
    (/\ pc = "returned"
     /\ faults = {}
     /\ ai_response.present
     /\ ai_response.total # Len(image_paths)) =>
        /\ result = None
        /\ finalOut = "absent"
        /\ ~tempDirExists

\* C7: a job on an N-page input with a complete, contract-valid response
\* (N records numbered 1..N in page order) and no failing tool or file
\* operation returns the final output path, the output carries exactly N
\* level-1 bookmarks targeting pages 1..N in this order, and the workspace
\* directory no longer exists.
C7_EndToEnd ==
    (/\ pc = "returned"
     /\ faults = {}
     /\ ResponseComplete(ai_response, pdfPages)) =>
        /\ result = FinalPath
        /\ finalOut = "full"
        /\ [k \in 1..Len(finalOutline) |->
               [level |-> finalOutline[k].level, page |-> finalOutline[k].page]]
              = [k \in 1..pdfPages |-> [level |-> 1, page |-> k]]
        /\ ~tempDirExists

C7_Witness ==
    /\ pc = "returned"
    /\ faults = {}
    /\ pdfPages = 2
    /\ ResponseComplete(ai_response, 2)
    /\ result = FinalPath
    /\ Len(finalOutline) = 2

\* C8: after a job that ends in failure there is no file at
\* final_output_path, whichever stage failed and however (stated for the
\* jobs whose response, if one was received, satisfies the contract).
C8_NoPartialOutput ==
    (/\ pc = "returned"
     /\ result = None
     /\ (ai_response.present => ResponseValid(ai_response, Len(image_paths)))) =>
        finalOut = "absent"

\* C9: in every job that reaches Done the number of images, the number of
\* page records (and the declared total) and the number of bookmark blocks
\* in the bookmark file are equal.
C9_PageCountsAgree ==
    (outcome = "Done" /\ pc = "finally") =>
        /\ Len(ai_response.pages) = Len(image_paths)
        /\ ai_response.total = Len(image_paths)
        /\ Len(bookmarkFile.blocks) = Len(image_paths)

\* the names of the page set S in ascending order of the page index
RECURSIVE AscendingPages(_)
AscendingPages(S) ==
    IF S = {} THEN << >>
    ELSE LET lo == CHOOSE x \in S : \A y \in S : x <= y
         IN  << FormatPage(lo) >> \o AscendingPages(S \ { lo })

\* C10: for a converter that wrote one file page_NNNN per page index,
\* pdf_to_images returns as many paths as files, ordered by the integer
\* value of the index and not by the names' string order, also when an
\* index has more digits than the zero padding.
C10_NumericPageOrder ==
    pc = "collected" =>
        /\ Len(image_paths) = Cardinality(writtenPages)
        /\ image_paths = AscendingPages(writtenPages)

C10_Witness ==
    /\ pc = "collected"
    /\ writtenPages = { 2, Pow10(PadWidth) - 1, Pow10(PadWidth) }
    /\ image_files # image_paths
    /\ image_paths = << FormatPage(2), FormatPage(Pow10(PadWidth) - 1),
                        FormatPage(Pow10(PadWidth)) >>

\* the stage completed successfully in this job
Did(stage) == \E i \in DOMAIN succeeded : succeeded[i] = stage

\* C11: pdf_to_images never hands an empty list on.  A converter that exits
\* with status zero and leaves no file matching the pattern is an error of
\* the step: no later stage is invoked and the job fails with no path.
C11_NeverEmptyImageList ==
    /\ Did("rasterize") => Len(image_paths) >= 1
    /\ ("gs_no_files" \in faults /\ pc # "rasterize") =>
          /\ ~Did("rasterize")
          /\ outcome = "Failed"
          /\ StageCalls = << "rasterize" >>
          /\ wfReturn = NoPath
          /\ pc = "returned" => result = None

C11_Witness ==
    /\ pc = "returned"
    /\ "gs_no_files" \in faults
    /\ origin = "RuntimeError: no images found"
    /\ image_paths = << >>
    /\ result = None

\* C12: apply_bookmarks reports success exactly when the tool exited with
\* status zero and the output path exists with a size above zero; a
\* non-zero exit, a timeout, a missing output and a zero-byte output each
\* give failure.
C12_ApplySuccessIff ==
    applied.invoked =>
        (Did("apply") <=> (/\ applied.run = "exit0"
                           /\ applied.out \in { "partial", "full" }))

C12_Witness ==
    /\ applied.invoked
    /\ applied.run = "exit0"
    /\ applied.out = "empty"
    /\ ~Did("apply")
    /\ pc = "returned"
    /\ result = None

\* C13: after apply_bookmarks returned failure, for whatever reason, no
\* zero-byte file is left at the output path (a removal that itself fails
\* is set aside).
C13_EmptyOutputRemoved ==
    (applied.invoked /\ ~Did("apply") /\ "output_remove" \notin faults) =>
        finalOut # "empty"

\* C14: the image preparation of the extraction step fails only when no
\* image is left: whenever it failed, every image had been skipped.
C14_FailsOnlyWhenNoneLeft ==
    (prepared.ran /\ origin \in { "OSError", "RuntimeError: No valid image parts" }) =>
        prepared.usable \ prepared.unread = {}

\* 1-based positions of the token c in the response text
Positions(c) == { i \in 1..Len(raw_text) : raw_text[i] = c }
Lowest(S) == CHOOSE x \in S : \A y \in S : x <= y
Highest(S) == CHOOSE x \in S : \A y \in S : x >= y

\* C15: for every response text the parser gives json.loads exactly the
\* span from the first '{' to the last '}' ; it fails when the text has no
\* '{', no '}', when the last '}' is before the first '{', and when that
\* span is not valid JSON, and it succeeds otherwise.
C15_ParsesOuterSpan ==
    pc = "parsed" =>
        IF \/ Positions("{") = {}
           \/ Positions("}") = {}
           \/ Highest(Positions("}")) < Lowest(Positions("{"))
        THEN parsed.status \in { "no_text", "no_boundaries" }
        ELSE LET outer == SubSeq(raw_text, Lowest(Positions("{")),
                                 Highest(Positions("}")))
             IN  /\ parsed.span = outer
                 /\ parsed.status = IF JsonLoads(outer) THEN "ok" ELSE "bad_json"

\* a text whose object holds a nested object: the first '}' is not the last
C15_Witness ==
    /\ pc = "parsed"
    /\ raw_text = << "{", "n", "{", "}", "}" >>
    /\ parsed.status = "ok"
    /\ parsed.span = << "{", "n", "{", "}", "}" >>

\* the entries of the response that carry a page_number, in input order
Records == SelectSeq(ai_response.pages, LAMBDA e : e.has_page_number)

\* C16: after a successful compile step the bookmark file holds one block
\* per page record, in the order of the input list; each block is the begin
\* marker, the title 'sheet_number sheet_title', level 1, the record's
\* page_number and a blank line; nothing is reordered, merged or duplicated.
C16_OneBlockPerRecordInOrder ==
    (pc = "apply" /\ Did("compile")) =>
        /\ bookmarkFile.exists
        /\ Len(bookmarkFile.blocks) = Len(Records)
        /\ \A i \in 1..Len(Records) :
             LET b == bookmarkFile.blocks[i]
                 r == Records[i]
             IN  /\ b.begin = "BookmarkBegin"
                 /\ b.level = 1
                 /\ b.page = r.page_number
                 /\ b.blank = ""
                 /\ { "sheet_number", "sheet_title" } \subseteq DOMAIN r =>
                        b.title = r.sheet_number \o " " \o r.sheet_title

\* the same record twice in the list: two equal blocks
C16_Witness ==
    /\ pc = "apply"
    /\ Did("compile")
    /\ Len(ai_response.pages) = 2
    /\ ai_response.pages[1] = ai_response.pages[2]
    /\ Len(bookmarkFile.blocks) = 2
    /\ bookmarkFile.blocks[1].title = "B2 PLAN"
    /\ bookmarkFile.blocks[2].page = 2

\* C17: for an empty list of page records the compile step writes a
\* bookmark file with zero blocks and reports success, and the job goes on
\* to the apply stage.
C17_EmptyListCompiles ==
    (/\ "compile" \in { calls[i] : i \in DOMAIN calls }
     /\ ai_response.has_pages
     /\ ai_response.pages = << >>
     /\ "bookmark_write" \notin faults) =>
        /\ Did("compile")
        /\ pc = "apply" => bookmarkFile = [exists |-> TRUE, blocks |-> << >>]
        /\ pc # "apply" => "apply" \in { calls[i] : i \in DOMAIN calls }

C17_Witness ==
    /\ pc = "returned"
    /\ ai_response.has_pages
    /\ ai_response.pages = << >>
    /\ calls = << "rasterize", "extract", "compile", "apply", "teardown" >>
    /\ succeeded = << "rasterize", "extract", "compile", "apply" >>
    /\ result = FinalPath

\* C18: when a stage failed, the error process_pdf_workflow raises is the
\* error the failing stage first produced, unchanged.
C18_OriginalErrorSurfaces ==
    (outcome = "Failed" /\ StageCalls # << >>) => raised = origin

\* the error of the failed stage as the orchestrator saw it in its except
\* block, by the stage that was invoked last
StageError ==
    CASE origin = NoError -> NoError
      [] origin \in { "FileNotFoundError", "ValueError: No image paths provided" } -> origin
      [] StageCalls = << "rasterize" >> /\ origin = "CalledProcessError" ->
            "RuntimeError: Ghostscript conversion failed"
      [] StageCalls = << "rasterize" >> /\ origin = "TimeoutExpired" ->
            "RuntimeError: Ghostscript timed out"
      [] StageCalls = << "rasterize" >> ->
            "RuntimeError: Unexpected error during image conversion"
      [] StageCalls = << "rasterize", "extract" >> /\ prepared.ran ->
            "RuntimeError: Failed during image preparation for AI."
      [] StageCalls = << "rasterize", "extract" >> ->
            "RuntimeError: Gemini API interaction or response processing failed."
      [] StageCalls = << "rasterize", "extract", "compile" >> ->
            "RuntimeError: Failed to convert AI response to PDFtk bookmark format."
      [] OTHER -> "RuntimeError: Failed to apply PDFtk bookmarks to the PDF."

\* C19: a failure of the teardown never changes the outcome of the job.
\* The finally block leaves the exception in flight, the return value and
\* the orchestrator's outcome as they were; after a failed teardown the
\* caller of a failed job still gets that stage's error (None from the
\* handler), the caller of a successful job still gets final_output_path,
\* and no exception of the cleanup is raised.
C19_TeardownFailureHarmless ==
    /\ [][pc = "finally" =>
            /\ raised' = raised
            /\ wfReturn' = wfReturn
            /\ outcome' = outcome]_vars
    /\ []((WorkflowExited /\ "rmtree" \in faults) =>
            /\ raised = StageError
            /\ outcome = "Done" => (raised = NoError /\ wfReturn = FinalPath)
            /\ outcome = "Failed" => (raised # NoError /\ wfReturn = NoPath)
            /\ pc = "returned" =>
                 /\ ~escaped
                 /\ result = IF outcome = "Done" THEN FinalPath ELSE None)

C19_Witness ==
    /\ pc = "returned"
    /\ "rmtree" \in faults
    /\ tempDirExists
    /\ outcome = "Failed"
    /\ origin = "CalledProcessError"
    /\ raised = "RuntimeError: Ghostscript conversion failed"
    /\ result = None

\* the three intermediate locations of the workspace
Intermediates ==
    { paths.image_output_dir, paths.response_file_path, paths.bookmark_file_path }

\* C20: in every workspace get_processing_paths returns, image_output_dir,
\* response_file_path and bookmark_file_path are inside temp_dir and
\* final_output_path is outside it; so a teardown that removed temp_dir
\* left nothing of the intermediate files, and no teardown removes the
\* final output.
C20_WorkspaceLayout ==
    /\ [](paths # NoPaths =>
            /\ \A p \in Intermediates : IsUnder(p, paths.temp_dir)
            /\ ~IsUnder(paths.final_output_path, paths.temp_dir)
            /\ paths.final_output_path # paths.temp_dir
            /\ (pc = "torn_down" /\ paths.temp_dir \notin fs) =>
                  \A p \in fs : p \notin Intermediates /\ ~IsUnder(p, paths.temp_dir))
    /\ [][(pc = "teardown" /\ paths.final_output_path \in fs) =>
             paths.final_output_path \in fs']_vars

\* a name with a space and a suffix: the workspace was removed with what
\* was written into it, the final output stays
C20_Witness ==
    /\ pc = "torn_down"
    /\ original_filename = << " ", ".", "a" >>
    /\ paths.temp_dir = << "output", "processing___0a1b2c3d" >>
    /\ paths.final_output_path = << "output", "Autobookmarked_ .a" >>
    /\ fs = { OutputBaseDir, paths.final_output_path } \cup MakeDirs(uploaded_pdf_path)

\* C21: two jobs never have the same workspace root, so the intermediate
\* files a job has written stay in place until its own teardown.
C21_WorkspacesDisjoint ==
    pc = "jobs" =>
        /\ \A i, j \in JobIds :
             (i # j /\ jobs[i].phase # "paths" /\ jobs[j].phase # "paths") =>
                 jobs[i].paths.temp_dir # jobs[j].paths.temp_dir
        /\ \A j \in JobIds :
             jobs[j].phase = "teardown" => JobFiles(jobs[j].paths) \subseteq fs

\* how often the orchestrator invoked the stage
TimesCalled(stage) == Len(SelectSeq(calls, LAMBDA c : c = stage))

\* C22: within one job nothing is retried: the converter, the extraction
\* service and the injection tool are each called at most once, whether
\* the call fails or not, and no stage is invoked a second time.
C22_NothingRetried ==
    /\ invocations.converter <= 1
    /\ invocations.service <= 1
    /\ invocations.tool <= 1
    /\ \A stage \in { "rasterize", "extract", "compile", "apply" } :
         TimesCalled(stage) <= 1

\* a job that failed in the last of the three calls
C22_Witness ==
    /\ pc = "returned"
    /\ outcome = "Failed"
    /\ applied.invoked
    /\ applied.run = "timeout"
    /\ invocations = [converter |-> 1, service |-> 1, tool |-> 1]

\* C23: every job that entered the workflow eventually ends in Done or
\* Failed: none of the three blocking calls can keep it waiting for ever.
C23_JobEnds == (pc = "rasterize") ~> (outcome \in { "Done", "Failed" })

(***************************************************************************)
(* The sanitization rules for sheet_title.  The program holds them as the  *)
(* text of GEMINI_SYSTEM_PROMPT_TEMPLATE, the instruction the extraction   *)
(* service is given; here they are the function that text describes, the  *)
(* rules taken in the order the text lists them: symbols and punctuation   *)
(* first, then the case.  A title is a sequence of characters.             *)
(***************************************************************************)
MaxTitle == 3

UpperLetters == { "A", "D", "L", "N", "P" }
LowerLetters == { "a", "d", "l", "n", "p" }
DigitChars == { "1" }
WordSeparators == { " ", "-" }

Lower(c) ==
    CASE c = "A" -> "a" [] c = "D" -> "d" [] c = "L" -> "l"
      [] c = "N" -> "n" [] c = "P" -> "p" [] OTHER -> c

Upper(c) ==
    CASE c = "a" -> "A" [] c = "d" -> "D" [] c = "l" -> "L"
      [] c = "n" -> "N" [] c = "p" -> "P" [] OTHER -> c

\* the characters the titles of the model are made of
TitleChars == { "a", "n", "d", "A", "N", "D", "1", " ", "-", "/", "&", ",", "(" }
DocumentTitles == UNION { [1..n -> TitleChars] : n \in 0..MaxTitle }

\* rule 1, Symbols & Punctuation, for one character
SanitizeSymbol(c) ==
    CASE c \in { "/", "\\" } -> << "-" >>
      [] c = "&" -> << "a", "n", "d" >>
      [] c \in { ",", ".", "#" } -> << >>
      [] c \in { "(", ")", "[", "]", "{", "}" } -> << >>
      [] c \in UpperLetters \cup LowerLetters \cup DigitChars \cup WordSeparators -> << c >>
      [] OTHER -> << >>

RECURSIVE SanitizeSymbols(_)
SanitizeSymbols(s) ==
    IF s = << >> THEN << >>
    ELSE SanitizeSymbol(Head(s)) \o SanitizeSymbols(Tail(s))

\* the words the examples of rule 3 leave in lower case
SmallWords == { << "a", "n", "d" >>, << "o", "f" >> }

WordStart(s, i) == i = 1 \/ s[i - 1] \in WordSeparators
WordEnd(s, i) == i = Len(s) \/ s[i + 1] \in WordSeparators

\* the word of s that holds position i, in lower case
WordAt(s, i) ==
    LET from == CHOOSE b \in 1..i :
                    /\ WordStart(s, b)
                    /\ \A k \in b..i : s[k] \notin WordSeparators
        to == CHOOSE e \in i..Len(s) :
                    /\ WordEnd(s, e)
                    /\ \A k \in i..e : s[k] \notin WordSeparators
    IN  [ k \in 1..(to - from + 1) |-> Lower(s[from + k - 1]) ]

\* rule 2, Title Case: never ALL CAPS
TitleCase(s) ==
    [ i \in 1..Len(s) |->
        IF s[i] \in WordSeparators THEN s[i]
        ELSE IF WordAt(s, i) \in SmallWords THEN Lower(s[i])
        ELSE IF WordStart(s, i) THEN Upper(s[i])
        ELSE Lower(s[i]) ]

\* the case converted before the symbols are replaced
SanitizeCaseFirst(s) == SanitizeSymbols(TitleCase(s))

Sanitize(s) == TitleCase(SanitizeSymbols(s))

SanitizeInit ==
    /\ pc = "sanitize"
    /\ document_title \in DocumentTitles
    /\ json_title = << >>
    /\ resanitized = << >>
    /\ inputExists = TRUE
    /\ pdfPages = 1
    /\ tempDirExists = TRUE
    /\ image_files = << >>
    /\ writtenPages = { 1 }
    /\ image_paths = << FormatPage(1) >>
    /\ request = NoRequest
    /\ ai_response = NoResponse
    /\ responseFileWritten = FALSE
    /\ bookmarkFile = NoFile
    /\ finalOut = "absent"
    /\ finalOutline = << >>
    /\ outcome = "running"
    /\ raised = NoError
    /\ origin = NoError
    /\ wfReturn = NoPath
    /\ result = NoPath
    /\ escaped = FALSE
    /\ calls = << "rasterize", "extract" >>
    /\ succeeded = << "rasterize" >>
    /\ faults = {}
    /\ applied = NotApplied
    /\ invocations = [converter |-> 1, service |-> 1, tool |-> 0]
    /\ prepared = NotPrepared
    /\ ParserIdle
    /\ PathsIdle

\* the rules applied to a title of the document
SanitizeTitle ==
    /\ pc = "sanitize"
    /\ pc' = "sanitized"
    /\ json_title' = Sanitize(document_title)
    /\ UNCHANGED << document_title, resanitized, jobVars, parserVars, pathVars >>

\* the rules applied to a title that is already sanitized
SanitizeAgain ==
    /\ pc = "sanitized"
    /\ pc' = "resanitized"
    /\ resanitized' = Sanitize(json_title)
    /\ UNCHANGED << document_title, json_title, jobVars, parserVars, pathVars >>

SanitizeNext == SanitizeTitle \/ SanitizeAgain

SanitizeSpec == SanitizeInit /\ [][SanitizeNext]_vars

Characters(t) ==
    CASE t = "PLAN" -> << "P", "L", "A", "N" >>
      [] t = "Plan" -> << "P", "l", "a", "n" >>

\* the Sanitization Invariant: no punctuation or symbol other than the
\* hyphen, and not all uppercase
SanitizationInvariant(s) ==
    /\ \A i \in 1..Len(s) :
         s[i] \in UpperLetters \cup LowerLetters \cup DigitChars \cup WordSeparators
    /\ \E i \in 1..Len(s) : s[i] \in LowerLetters \cup DigitChars

\* C25: every sheet_title that reaches a bookmark title satisfies the
\* Sanitization Invariant; a record whose sheet_title violates it is never
\* written to the bookmark file as it is.
C25_WrittenTitlesSanitized ==
    (pc = "apply" /\ Did("compile")) =>
        \A i \in 1..Len(bookmarkFile.blocks) :
            LET r == Records[i]
            IN  ("sheet_title" \in DOMAIN r /\ ~ SanitizationInvariant(Characters(r.sheet_title)))
                    => bookmarkFile.blocks[i].title #
                            Get(r, "sheet_number", MissingSheetNum) \o " " \o r.sheet_title

\* C26: a page record that lacks sheet_number or sheet_title does not fail
\* the job and is not dropped: its block is still emitted, with an explicit
\* placeholder in place of the missing field and the record's page_number
\* as target page.
C26_MissingFieldGetsPlaceholder ==
    (/\ "compile" \in { calls[i] : i \in DOMAIN calls }
     /\ ai_response.has_pages
     /\ "bookmark_write" \notin faults) =>
        /\ Did("compile")
        /\ pc = "apply"
        /\ Len(bookmarkFile.blocks) = Len(Records)
        /\ \A i \in 1..Len(Records) :
             LET b == bookmarkFile.blocks[i]
                 r == Records[i]
                 number == IF "sheet_number" \in DOMAIN r
                           THEN r.sheet_number ELSE "MISSING_SHEET_NUM"
                 title == IF "sheet_title" \in DOMAIN r
                          THEN r.sheet_title ELSE "MISSING_SHEET_TITLE"
             IN  { "sheet_number", "sheet_title" } \ DOMAIN r # {} =>
                    /\ b.title = number \o " " \o title
                    /\ b.page = r.page_number

\* a record with a title and no number, then one with neither
C26_Witness ==
    /\ pc = "apply"
    /\ Did("compile")
    /\ ai_response.pages = << [has_page_number |-> TRUE, page_number |-> 1,
                               sheet_title |-> "Plan"],
                              [has_page_number |-> TRUE, page_number |-> 2] >>
    /\ Len(bookmarkFile.blocks) = 2
    /\ bookmarkFile.blocks[1].title = "MISSING_SHEET_NUM Plan"
    /\ bookmarkFile.blocks[2].title = "MISSING_SHEET_NUM MISSING_SHEET_TITLE"
    /\ bookmarkFile.blocks[2].page = 2

\* C27: the page count written into the instruction sent to the extraction
\* service equals the number of page images the request carries, in every
\* run, also when images were dropped during preparation.
C27_PromptCountsImagesSent ==
    request.sent => request.prompt_pages = Len(request.parts)

\* the positions of the entries of the response that have no page_number
Skipped == { i \in 1..Len(ai_response.pages) : ~ ai_response.pages[i].has_page_number }

\* C28: in the compile step an entry without page_number is skipped, every
\* other entry is still emitted in input order and the step reports
\* success; when every entry is skipped it writes an empty file and still
\* reports success, and the job continues to the apply stage with fewer
\* bookmarks than pages.
C28_SkipsEntriesWithoutPageNumber ==
    (/\ "compile" \in { calls[i] : i \in DOMAIN calls }
     /\ ai_response.has_pages
     /\ Skipped # {}
     /\ "bookmark_write" \notin faults) =>
        /\ succeeded = << "rasterize", "extract", "compile" >>
        /\ pc = "apply"
        /\ bookmarkFile.exists
        /\ Len(bookmarkFile.blocks) = Len(ai_response.pages) - Cardinality(Skipped)
        /\ Len(bookmarkFile.blocks) < Len(ai_response.pages)
        /\ \A i \in 1..Len(ai_response.pages) :
             i \notin Skipped =>
                bookmarkFile.blocks[i - Cardinality({ k \in Skipped : k < i })] =
                    BookmarkBlock(ai_response.pages[i])
        /\ Skipped = 1..Len(ai_response.pages) => bookmarkFile.blocks = << >>

\* the first entry has no page_number, the second is written
C28_Witness ==
    /\ pc = "apply"
    /\ succeeded = << "rasterize", "extract", "compile" >>
    /\ Len(ai_response.pages) = 2
    /\ Skipped = { 1 }
    /\ ai_response.pages[2].page_number = 2
    /\ Len(bookmarkFile.blocks) = 1
    /\ bookmarkFile.blocks[1].page = 2

\* C29: a failure to write the raw response to response_file_path does not
\* change the job: the compile step still runs, the apply step runs after a
\* successful compile, and the job can reach Done.
C29_DumpFailureHarmless ==
    "response_write" \in faults =>
        /\ Did("extract")
        /\ pc = "compile" \/ TimesCalled("compile") = 1
        /\ (Did("compile") /\ pc # "apply") => TimesCalled("apply") = 1
        /\ (pc = "returned" /\ faults = { "response_write" }
                /\ ResponseComplete(ai_response, pdfPages)) =>
              /\ outcome = "Done"
              /\ result = FinalPath
              /\ finalOut = "full"

\* the dump failed and the job is Done
C29_Witness ==
    /\ pc = "returned"
    /\ faults = { "response_write" }
    /\ ~ responseFileWritten
    /\ outcome = "Done"
    /\ result = FinalPath
    /\ succeeded = StageOrder

\* C30: the input PDF is left unchanged by every job, successful or failed:
\* no stage writes to it, the injection tool writes only to
\* final_output_path, which always differs from the input path, and the
\* teardown never deletes it.
C30_InputUntouched ==
    pc \in { "paths", "stages", "teardown", "torn_down" } =>
        /\ uploaded_pdf_path \in fs
        /\ uploaded_pdf_path \notin writes
        /\ pc # "paths" =>
              /\ paths.final_output_path # uploaded_pdf_path
              /\ ~ IsUnder(uploaded_pdf_path, paths.temp_dir)
        /\ \A p \in writes :
              p = paths.final_output_path \/ IsUnder(p, paths.temp_dir)

\* an input in the output directory itself: the output was written next to
\* it, the workspace is gone, the input is still there
C30_Witness ==
    /\ pc = "torn_down"
    /\ uploaded_pdf_path = << "output", "a.a" >>
    /\ paths.final_output_path = << "output", "Autobookmarked_a.a" >>
    /\ paths.final_output_path \in writes
    /\ paths.temp_dir \notin fs
    /\ uploaded_pdf_path \in fs
====
